---- MODULE Spec2Model ----
(***************************************************************************)
(* Download orchestration of the media center: the DownloadManager         *)
(* (single-flight per videoId), the BackgroundDownloadService (startup     *)
(* sweep), the library store handlers and the download gateway.            *)
(***************************************************************************)
EXTENDS Integers, Sequences, FiniteSets, TLC

\* ---------------------------------------------------------------- bounds
MaxCalls == 3      \* startDownload calls made by UI call sites
MaxOps == 3        \* gateway download operations started in all
MaxCancels == 1    \* cancelDownload calls
MaxSweeps == 2     \* startBackgroundDownloads requests
MaxStops == 1      \* stop() calls
MaxUiDownloads == 1 \* startDownload calls made while the sweep is modelled
MaxStoreCalls == 2 \* library handler invocations made by the renderer
MaxUserActions == 1 \* favourite toggles and plays made while the sweep is modelled

\* Record ids: records 1 and 2 are the ones a previous session can have left,
\* and record i of them carries videoId i; a larger id is the id given to a
\* record that is added in this session.
SessionIds == {1, 2}
ItemIds == {1, 2, 3, 4}
MediaIds == {1, 2}

VARIABLES
  activeDownloads,  \* DownloadManager.activeDownloads: videoId -> promise (0: no entry)
  downloadStates,   \* DownloadManager.downloadStates: videoId -> state info
  cleanupTimers,    \* pending 30 s timers of startDownload's finally, per videoId
  calls,            \* startDownload calls made so far and what each caller observed
  cancelCount,      \* cancelDownload calls made so far, per videoId
  settledLast,      \* per videoId: an operation settled and startDownload was not called since
  ops,              \* gateway downloads started so far (the promise of download k is k)
  files,            \* size in bytes of the downloaded file of each videoId (0: no file)
  lib,              \* the persisted userLibrary document
  downloadQueue,    \* BackgroundDownloadService fields
  isProcessing,
  currentDownload,
  completedDownloads,
  failedDownloads,
  totalDownloads,
  scans,            \* startBackgroundDownloads calls suspended after reading the library
  loops,            \* processQueue invocations that are inside the while loop
  nScans,           \* startBackgroundDownloads requests made so far
  nStops,           \* stop() calls made so far
  sweepNo,          \* queues built so far: the sweep the current queue belongs to
  lastProgress,     \* the last payload handed to onProgressCallback
  completions,      \* the payloads handed to onCompleteCallback, in order
  lastItemComplete, \* the last (item, outcome) handed to onItemCompleteCallback
  validated,        \* the last validateVideoFile call: its arguments and its answer
  mediaBytes,       \* the size of the stream the platform serves for each videoId
  reqs,             \* library handler invocations that have read the document
  returned,         \* what the last library handler invocation returned
  nextId,           \* the id the next added record gets
  nStoreCalls,      \* library handler invocations made so far
  onProgressCallback,     \* BackgroundDownloadService callback slots: the
  onCompleteCallback,     \* observer whose handler each slot holds (0: null)
  onItemCompleteCallback,
  subscribed,       \* the observers that registered their handlers, in order
  deliveredTo       \* per topic: the observers handed the last payload, in order

dmVars == <<activeDownloads, downloadStates, cleanupTimers, calls, cancelCount,
            settledLast>>
gwVars == <<ops, files>>
svcVars == <<downloadQueue, isProcessing, currentDownload, completedDownloads,
             failedDownloads, totalDownloads>>
runVars == <<scans, loops, nScans, nStops, sweepNo>>
obsVars == <<lastProgress, completions, lastItemComplete>>
storeVars == <<reqs, returned, nextId, nStoreCalls>>
slotVars == <<onProgressCallback, onCompleteCallback, onItemCompleteCallback, subscribed>>
busVars == <<slotVars, deliveredTo>>
\* What the sweep leaves alone when it notifies, and when it does not.
quietVars == <<validated, mediaBytes, storeVars, slotVars>>
extVars == <<quietVars, deliveredTo>>
sweepVars == <<lib, svcVars, runVars, obsVars, extVars>>
vars == <<dmVars, gwVars, sweepVars>>

\* ------------------------------------------------------------ values
Pending == [kind |-> "pending", op |-> 0, fileSize |-> 0]
\* The object a gateway download resolves with; distinct downloads give distinct objects.
Result(o, size) == [kind |-> "ok", op |-> o, fileSize |-> size]
\* The error a gateway download rejects with.
Failure(o) == [kind |-> "err", op |-> o, fileSize |-> 0]

NoState == [status |-> "none", startTime |-> 0, payload |-> Pending]

\* Size floor of the gateway's existing-file check.
MinVideoBytes == 1048576
\* The sizes a finished download can have on disk: a video, and a clip that
\* is shorter than the floor.  RottenBytes is what is left of a video file
\* that lost most of its bytes after it was recorded.
DownloadBytes == 10485760
ShortDownloadBytes == 512000
RottenBytes == 2097152
DownloadSizes == {ShortDownloadBytes, DownloadBytes}

\* The videoId of library record id (a record stored without one holds ''),
\* and the path the gateway saves videoId to.
VideoIdOf(id) == id
NoVideoId == 0
PathOf(videoId) == <<"downloads", videoId>>
VideoIdAt(filePath) == filePath[2]
NoPath == <<>>

\* seq without its k-th element (Array.prototype.filter / shift).
RemoveAt(seq, k) == [i \in 1..(Len(seq) - 1) |-> IF i < k THEN seq[i] ELSE seq[i + 1]]

\* ------------------------------------------------------ DownloadManager
isDownloading(videoId) == activeDownloads[videoId] # 0

getDownloadState(videoId) == downloadStates[videoId]

\* The state written by the .then / .catch handlers of the download promise.
SettledState(videoId, res) ==
  [status |-> IF res.kind = "ok" THEN "completed" ELSE "error",
   startTime |-> downloadStates[videoId].startTime,
   payload |-> res]

\* Variant: the catch handler throws a new error instead of the one it caught.
DeliveredWrapped(res) == IF res.kind = "err" THEN [res EXCEPT !.op = 0] ELSE res

\* What a caller awaiting the download promise receives when the operation
\* settles with res: then returns the result, catch rethrows the error.
Delivered(res) == res

\* Variant: the finally handler leaves the in-flight marker in place.
FinallyActiveKept(videoId) == activeDownloads

\* The .finally handler: drop the in-flight marker of videoId.
FinallyActive(videoId) == [activeDownloads EXCEPT ![videoId] = 0]

\* A gateway download of videoId is started: downloadVideo(videoId) is invoked.
NewOp(videoId, src, sweep) ==
  [videoId |-> videoId, src |-> src, st |-> "running", res |-> Pending,
   cancelled |-> FALSE, sweep |-> sweep]

NewCall(videoId, invoked, promise) ==
  [videoId |-> videoId, invoked |-> invoked, promise |-> promise,
   cancelsAt |-> cancelCount[videoId], got |-> Pending]

\* startDownload(videoId, downloadFunction) by a UI call site; every call
\* passes its own function, which is invoked only when no promise is stored.
StartDownload(videoId) ==
  /\ Len(calls) < MaxCalls
  /\ IF activeDownloads[videoId] # 0
       THEN /\ calls' = Append(calls, NewCall(videoId, FALSE, activeDownloads[videoId]))
            /\ UNCHANGED <<activeDownloads, downloadStates, ops>>
       ELSE /\ Len(ops) < MaxOps
            /\ LET o == Len(ops) + 1 IN
                 /\ downloadStates' = [downloadStates EXCEPT ![videoId] =
                        [status |-> "downloading", startTime |-> o, payload |-> Pending]]
                 /\ ops' = Append(ops, NewOp(videoId, "dm", 0))
                 /\ activeDownloads' = [activeDownloads EXCEPT ![videoId] = o]
                 /\ calls' = Append(calls, NewCall(videoId, TRUE, o))
  /\ settledLast' = [settledLast EXCEPT ![videoId] = FALSE]
  /\ UNCHANGED <<cleanupTimers, cancelCount, files, sweepVars>>

RECURSIVE SumOver(_, _)
SumOver(f, S) ==
  IF S = {} THEN 0
  ELSE LET x == CHOOSE y \in S : TRUE IN f[x] + SumOver(f, S \ {x})

\* cancelDownload calls made so far.
TotalCancels == SumOver(cancelCount, MediaIds)

\* Variant: cancelDownload without its has() check.
CancelDownloadUnguarded(videoId) ==
  /\ TotalCancels < MaxCancels
  /\ cancelCount' = [cancelCount EXCEPT ![videoId] = @ + 1]
  /\ activeDownloads' = [activeDownloads EXCEPT ![videoId] = 0]
  /\ downloadStates' = [downloadStates EXCEPT ![videoId] =
                           [@ EXCEPT !.status = "cancelled"]]
  /\ ops' = [o \in 1..Len(ops) |->
               IF o = activeDownloads[videoId]
                 THEN [ops[o] EXCEPT !.cancelled = TRUE]
                 ELSE ops[o]]
  /\ UNCHANGED <<cleanupTimers, calls, settledLast, files, sweepVars>>

\* cancelDownload(videoId)
CancelDownload(videoId) ==
  /\ TotalCancels < MaxCancels
  /\ cancelCount' = [cancelCount EXCEPT ![videoId] = @ + 1]
  /\ IF activeDownloads[videoId] # 0
       THEN /\ activeDownloads' = [activeDownloads EXCEPT ![videoId] = 0]
            /\ downloadStates' = [downloadStates EXCEPT ![videoId] =
                                     [@ EXCEPT !.status = "cancelled"]]
            /\ ops' = [ops EXCEPT ![activeDownloads[videoId]].cancelled = TRUE]
       ELSE UNCHANGED <<activeDownloads, downloadStates, ops>>
  /\ UNCHANGED <<cleanupTimers, calls, settledLast, files, sweepVars>>

\* The operation of download o (started through startDownload) settles with
\* res: then/catch record the terminal state, finally drops the marker and
\* arms the cleanup timer, and every caller holding the promise is resumed.
SettleManaged(o, res) ==
  LET videoId == ops[o].videoId IN
    /\ downloadStates' = [downloadStates EXCEPT ![videoId] = SettledState(videoId, res)]
    /\ activeDownloads' = FinallyActive(videoId)
    /\ cleanupTimers' = [cleanupTimers EXCEPT ![videoId] = @ + 1]
    /\ calls' = [i \in 1..Len(calls) |->
                   IF calls[i].promise = o
                     THEN [calls[i] EXCEPT !.got = Delivered(res)]
                     ELSE calls[i]]
    /\ settledLast' = [settledLast EXCEPT ![videoId] = TRUE]
    /\ UNCHANGED <<cancelCount, sweepVars>>

\* The 30 s timer armed by a settlement fires.
CleanupTimer(videoId) ==
  /\ cleanupTimers[videoId] > 0
  /\ cleanupTimers' = [cleanupTimers EXCEPT ![videoId] = @ - 1]
  /\ downloadStates' = [downloadStates EXCEPT ![videoId] = NoState]
  /\ UNCHANGED <<activeDownloads, calls, cancelCount, settledLast, gwVars, sweepVars>>

\* ------------------------------------------------------------- gateway
\* The download-video handler succeeding for videoId: a file above the size
\* floor is kept and reported, anything else is replaced by a fresh download.
GatewayFileSize(videoId, written) ==
  IF files[videoId] > MinVideoBytes THEN files[videoId] ELSE written

\* Variant: the existence test of get-video-blob is inverted.
GetVideoBlobSuccessInverted(filePath) == files[VideoIdAt(filePath)] = 0

\* get-video-blob(filePath).success: the file exists.
GetVideoBlobSuccess(filePath) == files[VideoIdAt(filePath)] # 0

\* ---------------------------------------------------- validateVideoFile
\* Size floor of validateVideoFile (1024 * 1024) and its variance limit: the
\* quotient |size - expected| / expected is compared with 0.05 = 1 / 20.
MinValidBytes == 1048576
VarianceInverse == 20

Abs(n) == IF n < 0 THEN 0 - n ELSE n

\* Variant: the size floor is not checked.
validateVideoFileNoFloor(filePath, expectedSize) ==
  LET size == files[VideoIdAt(filePath)] IN
    IF size = 0 THEN FALSE
    ELSE IF expectedSize # 0 /\ expectedSize > 0
              /\ Abs(size - expectedSize) * VarianceInverse > expectedSize THEN FALSE
    ELSE TRUE

\* Variant: the variance limit is 0.1 instead of 0.05.
validateVideoFileLoose(filePath, expectedSize) ==
  LET size == files[VideoIdAt(filePath)] IN
    IF size = 0 THEN FALSE
    ELSE IF size < MinValidBytes THEN FALSE
    ELSE IF expectedSize # 0 /\ expectedSize > 0
              /\ Abs(size - expectedSize) * (VarianceInverse \div 2) > expectedSize THEN FALSE
    ELSE TRUE

\* validateVideoFile(filePath, expectedSize); an expectedSize that was not
\* passed is 0 here: undefined and 0 fail the same truthiness test.
validateVideoFile(filePath, expectedSize) ==
  LET size == files[VideoIdAt(filePath)] IN
    IF size = 0 THEN FALSE
    ELSE IF size < MinValidBytes THEN FALSE
    ELSE IF expectedSize # 0 /\ expectedSize > 0
              /\ Abs(size - expectedSize) * VarianceInverse > expectedSize THEN FALSE
    ELSE TRUE

NoCheck == [called |-> FALSE, filePath |-> NoPath, expectedSize |-> 0, ok |-> FALSE]

\* A caller asks validateVideoFile about the file of videoId.
ValidateFile(videoId, expectedSize) ==
  /\ validated' = [called |-> TRUE, filePath |-> PathOf(videoId),
                   expectedSize |-> expectedSize,
                   ok |-> validateVideoFile(PathOf(videoId), expectedSize)]
  /\ UNCHANGED <<dmVars, gwVars, lib, svcVars, runVars, obsVars, busVars, mediaBytes,
                 storeVars>>

\* ------------------------------------------------------- library store
NoItem ==
  [present |-> FALSE, videoId |-> NoVideoId, downloadStatus |-> "none",
   filePath |-> NoPath, fileName |-> NoPath, fileSize |-> 0,
   isFavorite |-> FALSE, playCount |-> 0]

\* library-update-item: merge the updates into record id, if it is there.
UpdateSuccess(id) == lib[id].present

StatusUpdate(id, status) ==
  IF lib[id].present THEN [lib EXCEPT ![id].downloadStatus = status] ELSE lib

CompletedUpdate(id, res) ==
  IF lib[id].present
    THEN [lib EXCEPT ![id] = [@ EXCEPT !.downloadStatus = "completed",
                                        !.filePath = PathOf(VideoIdOf(id)),
                                        !.fileName = PathOf(VideoIdOf(id)),
                                        !.fileSize = res.fileSize]]
    ELSE lib

\* The handlers below read the document (settings.get), decide, and write the
\* whole document back (settings.set); other invocations can run in between.
\* An invocation is represented from its read on.
NewRequest(kind, id, item, updates) ==
  [kind |-> kind, id |-> id, item |-> item, updates |-> updates, snap |-> lib]

NoReturn == [kind |-> "none", id |-> 0, success |-> FALSE, message |-> "", threw |-> FALSE]

Returned(kind, id, success, message) ==
  [kind |-> kind, id |-> id, success |-> success, message |-> message, threw |-> FALSE]

\* The item a call site hands to library-add-item: a videoId, and a filePath
\* with the size the file should have when the video is already on disk.
NewItem(videoId, filePath, fileSize) ==
  [videoId |-> videoId, filePath |-> filePath, fileSize |-> fileSize]

\* Variant: the duplicate test compares the filePath only.
AddExistsByPathOnly(snap, item) ==
  \E id \in ItemIds :
    /\ snap[id].present
    /\ snap[id].filePath = item.filePath

\* library-add-item's duplicate test: some record has the item's videoId or
\* the item's filePath (two missing paths are equal: undefined === undefined).
AddExists(snap, item) ==
  \E id \in ItemIds :
    /\ snap[id].present
    /\ \/ snap[id].videoId = item.videoId
       \/ snap[id].filePath = item.filePath

\* The downloadStatus library-add-item gives the new record.
AddedStatus(item) ==
  IF item.filePath # NoPath /\ validateVideoFile(item.filePath, item.fileSize)
    THEN "completed"
  ELSE IF item.filePath # NoPath THEN "failed"
  ELSE "pending"

AddedItem(item) ==
  [present |-> TRUE, videoId |-> item.videoId, downloadStatus |-> AddedStatus(item),
   filePath |-> item.filePath, fileName |-> item.filePath, fileSize |-> item.fileSize,
   isFavorite |-> FALSE, playCount |-> 0]

\* { ...library[itemIndex], ...updates }
Merge(record, updates) ==
  [f \in DOMAIN record |-> IF f \in DOMAIN updates THEN updates[f] ELSE record[f]]

\* The updates the call sites pass to library-update-item.
DownloadingFields == [downloadStatus |-> "downloading"]
FailedFields == [downloadStatus |-> "failed"]
CompletedFields(videoId) ==
  [filePath |-> PathOf(videoId), fileName |-> PathOf(videoId),
   fileSize |-> files[videoId], downloadStatus |-> "completed"]

\* library-add-item is invoked.
AddCall(videoId, filePath) ==
  /\ nStoreCalls < MaxStoreCalls
  /\ nStoreCalls' = nStoreCalls + 1
  /\ reqs' = Append(reqs, NewRequest("add", 0,
                 NewItem(videoId, filePath,
                         IF filePath = NoPath THEN 0 ELSE mediaBytes[videoId]),
                 <<>>))
  /\ UNCHANGED <<dmVars, gwVars, lib, svcVars, runVars, obsVars, busVars, validated,
                 mediaBytes, returned, nextId>>

\* library-add-item returns.
AddReturn(r) ==
  /\ r \in 1..Len(reqs)
  /\ reqs[r].kind = "add"
  /\ reqs' = RemoveAt(reqs, r)
  /\ IF AddExists(reqs[r].snap, reqs[r].item)
       THEN /\ returned' = Returned("add", 0, FALSE, "Item already exists in library")
            /\ UNCHANGED <<lib, nextId>>
       ELSE /\ nextId \in ItemIds
            /\ lib' = [reqs[r].snap EXCEPT ![nextId] = AddedItem(reqs[r].item)]
            /\ nextId' = nextId + 1
            /\ returned' = Returned("add", nextId, TRUE, "")
  /\ UNCHANGED <<dmVars, gwVars, svcVars, runVars, obsVars, busVars, validated, mediaBytes,
                 nStoreCalls>>

\* library-update-item is invoked.
UpdateCall(id, updates) ==
  /\ nStoreCalls < MaxStoreCalls
  /\ nStoreCalls' = nStoreCalls + 1
  /\ reqs' = Append(reqs, NewRequest("update", id, NewItem(NoVideoId, NoPath, 0), updates))
  /\ UNCHANGED <<dmVars, gwVars, lib, svcVars, runVars, obsVars, busVars, validated,
                 mediaBytes, returned, nextId>>

\* library-update-item returns.
UpdateReturn(r) ==
  /\ r \in 1..Len(reqs)
  /\ reqs[r].kind = "update"
  /\ reqs' = RemoveAt(reqs, r)
  /\ LET id == reqs[r].id
         snap == reqs[r].snap
     IN  IF ~snap[id].present
           THEN /\ returned' = Returned("update", id, FALSE, "Item not found in library")
                /\ UNCHANGED lib
           ELSE /\ lib' = [snap EXCEPT ![id] = Merge(snap[id], reqs[r].updates)]
                /\ returned' = Returned("update", id, TRUE, "")
  /\ UNCHANGED <<dmVars, gwVars, svcVars, runVars, obsVars, busVars, validated, mediaBytes,
                 nextId, nStoreCalls>>

\* library-remove-item is invoked.
RemoveCall(id) ==
  /\ nStoreCalls < MaxStoreCalls
  /\ nStoreCalls' = nStoreCalls + 1
  /\ reqs' = Append(reqs, NewRequest("remove", id, NewItem(NoVideoId, NoPath, 0), <<>>))
  /\ UNCHANGED <<dmVars, gwVars, lib, svcVars, runVars, obsVars, busVars, validated,
                 mediaBytes, returned, nextId>>

\* library-remove-item returns.
RemoveReturn(r) ==
  /\ r \in 1..Len(reqs)
  /\ reqs[r].kind = "remove"
  /\ reqs' = RemoveAt(reqs, r)
  /\ LET id == reqs[r].id
         snap == reqs[r].snap
     IN  IF ~snap[id].present
           THEN /\ returned' = Returned("remove", id, FALSE, "Item not found in library")
                /\ UNCHANGED lib
           ELSE /\ lib' = [snap EXCEPT ![id] = NoItem]
                /\ returned' = Returned("remove", id, TRUE, "")
  /\ UNCHANGED <<dmVars, gwVars, svcVars, runVars, obsVars, busVars, validated, mediaBytes,
                 nextId, nStoreCalls>>

\* Variant: the flag is flipped in the document as it is persisted now.
ToggledInPlace(snap, id) == [lib EXCEPT ![id].isFavorite = ~snap[id].isFavorite]

\* library-toggle-favorite: the document read, with the flag of record id flipped.
Toggled(snap, id) == [snap EXCEPT ![id].isFavorite = ~@]

\* library-update-play-stats: the document read, with record id played once more.
Played(snap, id) == [snap EXCEPT ![id].playCount = @ + 1]

\* library-toggle-favorite or library-update-play-stats is invoked.
UserActionCall(kind, id) ==
  /\ nStoreCalls < MaxStoreCalls
  /\ nStoreCalls' = nStoreCalls + 1
  /\ reqs' = Append(reqs, NewRequest(kind, id, NewItem(NoVideoId, NoPath, 0), <<>>))
  /\ UNCHANGED <<dmVars, gwVars, lib, svcVars, runVars, obsVars, busVars, validated,
                 mediaBytes, returned, nextId>>

\* library-toggle-favorite or library-update-play-stats returns.
UserActionReturn(r) ==
  /\ r \in 1..Len(reqs)
  /\ reqs[r].kind \in {"toggle", "play"}
  /\ reqs' = RemoveAt(reqs, r)
  /\ LET id == reqs[r].id
         snap == reqs[r].snap
     IN  IF ~snap[id].present
           THEN /\ returned' = Returned(reqs[r].kind, id, FALSE, "Item not found in library")
                /\ UNCHANGED lib
           ELSE /\ lib' = IF reqs[r].kind = "toggle" THEN Toggled(snap, id)
                                                      ELSE Played(snap, id)
                /\ returned' = Returned(reqs[r].kind, id, TRUE, "")
  /\ UNCHANGED <<dmVars, gwVars, svcVars, runVars, obsVars, busVars, validated, mediaBytes,
                 nextId, nStoreCalls>>

\* ------------------------------------------- BackgroundDownloadService
\* The classification of one record of the library snapshot.
NeedsDownload(item) ==
  IF item.downloadStatus \in {"failed", "downloading", "pending"} THEN TRUE
  ELSE IF item.filePath = NoPath THEN TRUE
  ELSE ~GetVideoBlobSuccess(item.filePath)

RECURSIVE MissingFrom(_, _)
\* The records of snapshot snap, from id on, that need a download, in library order.
MissingFrom(snap, id) ==
  IF id \notin ItemIds THEN <<>>
  ELSE (IF snap[id].present /\ snap[id].videoId # NoVideoId /\ NeedsDownload(snap[id])
          THEN <<id>> ELSE <<>>)
         \o MissingFrom(snap, id + 1)

MissingVideos(snap) == MissingFrom(snap, 1)

\* The observers a payload is handed to: the holder of the slot, if any.
Handed(callback) == IF callback = 0 THEN <<>> ELSE <<callback>>

\* deliveredTo after a step that calls the callbacks of the topics given.
Notified(progress, complete, item) ==
  [topic \in {"progress", "complete", "item"} |->
     IF topic = "progress" /\ progress THEN Handed(onProgressCallback)
     ELSE IF topic = "complete" /\ complete THEN Handed(onCompleteCallback)
     ELSE IF topic = "item" /\ item THEN Handed(onItemCompleteCallback)
     ELSE deliveredTo[topic]]

\* The payload updateProgress hands to onProgressCallback.
Progress(current, completed, failed, queue, total, processing) ==
  [current |-> current, completed |-> completed, failed |-> failed,
   remaining |-> Len(queue), total |-> total, isProcessing |-> processing]

CompleteEvent(completed, failed, total) ==
  [completed |-> completed, failed |-> failed, total |-> total]

NewLoop(item, sweep) ==
  [pc |-> "upd1", item |-> item, op |-> 0, res |-> Pending, sweep |-> sweep]

\* processQueue's guard: the call returns at once when a loop is marked running.
ProcessQueueEnters(processing, queue) == ~processing /\ Len(queue) > 0

\* startBackgroundDownloads is requested: library-get-items reads the document.
ScanRead ==
  /\ nScans < MaxSweeps
  /\ nScans' = nScans + 1
  /\ scans' = Append(scans, [snap |-> lib, draining |-> isProcessing])
  /\ UNCHANGED <<dmVars, extVars, gwVars, lib, svcVars, loops, nStops, sweepNo, obsVars>>

\* startBackgroundDownloads resumes: it classifies the snapshot, replaces the
\* queue and the counters, reports progress and calls processQueue; processQueue
\* (unless it returns at its guard) takes the first item and asks the store to
\* mark it downloading.
ScanCommit(s) ==
  /\ s \in 1..Len(scans)
  /\ scans' = RemoveAt(scans, s)
  /\ LET missing == MissingVideos(scans[s].snap) IN
       IF Len(missing) = 0
         THEN /\ completions' = Append(completions, CompleteEvent(0, 0, 0))
              /\ deliveredTo' = Notified(FALSE, TRUE, FALSE)
              /\ UNCHANGED <<svcVars, loops, sweepNo, lastProgress>>
         ELSE /\ totalDownloads' = Len(missing)
              /\ sweepNo' = sweepNo + 1
              /\ completedDownloads' = 0
              /\ failedDownloads' = 0
              /\ IF ProcessQueueEnters(isProcessing, missing)
                   THEN /\ isProcessing' = TRUE
                        /\ downloadQueue' = Tail(missing)
                        /\ currentDownload' = Head(missing)
                        /\ loops' = Append(loops, NewLoop(Head(missing), sweepNo + 1))
                        /\ lastProgress' = Progress(Head(missing), 0, 0, Tail(missing),
                                                    Len(missing), TRUE)
                   ELSE /\ downloadQueue' = missing
                        /\ lastProgress' = Progress(currentDownload, 0, 0, missing,
                                                    Len(missing), isProcessing)
                        /\ UNCHANGED <<isProcessing, currentDownload, loops>>
              /\ deliveredTo' = Notified(TRUE, FALSE, FALSE)
              /\ UNCHANGED completions
  /\ UNCHANGED <<dmVars, quietVars, gwVars, lib, nScans, nStops, lastItemComplete>>

\* Loop k resumes after the store marked its item downloading: it invokes
\* downloadVideo(item.videoId).
LoopDownload(k) ==
  /\ k \in 1..Len(loops)
  /\ loops[k].pc = "upd1"
  /\ Len(ops) < MaxOps
  /\ lib' = StatusUpdate(loops[k].item, "downloading")
  /\ ops' = Append(ops, NewOp(VideoIdOf(loops[k].item), "sweep", loops[k].sweep))
  /\ loops' = [loops EXCEPT ![k].pc = "dl", ![k].op = Len(ops) + 1]
  /\ UNCHANGED <<dmVars, extVars, files, svcVars, scans, nScans, nStops, sweepNo, obsVars>>

\* The download awaited by a loop settles with res: on success the loop asks
\* the store to record the file, on failure it counts the item as failed and
\* asks the store to mark it failed.
SettleSweep(o, res) ==
  \E k \in 1..Len(loops) :
    /\ loops[k].pc = "dl"
    /\ loops[k].op = o
    /\ IF res.kind = "ok"
         THEN /\ loops' = [loops EXCEPT ![k].pc = "upd2", ![k].res = res]
              /\ UNCHANGED failedDownloads
         ELSE /\ loops' = [loops EXCEPT ![k].pc = "updF"]
              /\ failedDownloads' = failedDownloads + 1
    /\ UNCHANGED <<dmVars, extVars, lib, downloadQueue, isProcessing, currentDownload,
                   completedDownloads, totalDownloads, scans, nScans, nStops, sweepNo,
                   obsVars>>

\* Loop k resumes after the store answered the completed-update.
LoopRecorded(k) ==
  /\ k \in 1..Len(loops)
  /\ loops[k].pc = "upd2"
  /\ lib' = CompletedUpdate(loops[k].item, loops[k].res)
  /\ IF UpdateSuccess(loops[k].item)
       THEN /\ completedDownloads' = completedDownloads + 1
            /\ lastItemComplete' = <<loops[k].item, "completed">>
            /\ currentDownload' = 0
            /\ lastProgress' = Progress(0, completedDownloads + 1, failedDownloads,
                                        downloadQueue, totalDownloads, isProcessing)
            /\ loops' = [loops EXCEPT ![k].pc = "delay"]
            /\ deliveredTo' = Notified(TRUE, FALSE, TRUE)
            /\ UNCHANGED failedDownloads
       ELSE /\ failedDownloads' = failedDownloads + 1
            /\ loops' = [loops EXCEPT ![k].pc = "updF"]
            /\ UNCHANGED <<completedDownloads, lastItemComplete, currentDownload,
                           lastProgress, deliveredTo>>
  /\ UNCHANGED <<dmVars, quietVars, gwVars, downloadQueue, isProcessing, totalDownloads,
                 scans, nScans, nStops, sweepNo, completions>>

\* Loop k resumes after the store answered the failed-update.
LoopFailed(k) ==
  /\ k \in 1..Len(loops)
  /\ loops[k].pc = "updF"
  /\ lib' = StatusUpdate(loops[k].item, "failed")
  /\ lastItemComplete' = <<loops[k].item, "failed">>
  /\ currentDownload' = 0
  /\ lastProgress' = Progress(0, completedDownloads, failedDownloads,
                              downloadQueue, totalDownloads, isProcessing)
  /\ loops' = [loops EXCEPT ![k].pc = "delay"]
  /\ deliveredTo' = Notified(TRUE, FALSE, TRUE)
  /\ UNCHANGED <<dmVars, quietVars, gwVars, downloadQueue, isProcessing, completedDownloads,
                 failedDownloads, totalDownloads, scans, nScans, nStops, sweepNo,
                 completions>>

\* The delay of loop k elapses: it takes the next item of the queue, or
\* leaves the loop and reports completion.
LoopNext(k) ==
  /\ k \in 1..Len(loops)
  /\ loops[k].pc = "delay"
  /\ IF Len(downloadQueue) > 0
       THEN /\ downloadQueue' = Tail(downloadQueue)
            /\ currentDownload' = Head(downloadQueue)
            /\ lastProgress' = Progress(Head(downloadQueue), completedDownloads,
                                        failedDownloads, Tail(downloadQueue),
                                        totalDownloads, isProcessing)
            /\ loops' = [loops EXCEPT ![k] = NewLoop(Head(downloadQueue), sweepNo)]
            /\ deliveredTo' = Notified(TRUE, FALSE, FALSE)
            /\ UNCHANGED <<isProcessing, completions>>
       ELSE /\ isProcessing' = FALSE
            /\ completions' = Append(completions,
                   CompleteEvent(completedDownloads, failedDownloads, totalDownloads))
            /\ loops' = RemoveAt(loops, k)
            /\ deliveredTo' = Notified(FALSE, TRUE, FALSE)
            /\ UNCHANGED <<downloadQueue, currentDownload, lastProgress>>
  /\ UNCHANGED <<dmVars, quietVars, gwVars, lib, completedDownloads, failedDownloads,
                 totalDownloads, scans, nScans, nStops, sweepNo, lastItemComplete>>

\* stop()
Stop ==
  /\ nStops < MaxStops
  /\ nStops' = nStops + 1
  /\ downloadQueue' = <<>>
  /\ isProcessing' = FALSE
  /\ currentDownload' = 0
  /\ UNCHANGED <<dmVars, extVars, gwVars, lib, completedDownloads, failedDownloads,
                 totalDownloads, scans, loops, nScans, sweepNo, obsVars>>

\* The effect of a BackgroundDownloadStatus component runs: it sets the three
\* callbacks to its own handlers.
RegisterCallbacks(observer) ==
  /\ \A n \in 1..Len(subscribed) : subscribed[n] # observer
  /\ onProgressCallback' = observer
  /\ onCompleteCallback' = observer
  /\ onItemCompleteCallback' = observer
  /\ subscribed' = Append(subscribed, observer)
  /\ UNCHANGED <<dmVars, gwVars, lib, svcVars, runVars, obsVars, validated, mediaBytes,
                 storeVars, deliveredTo>>

\* A running gateway download settles: it resolves with a result object or
\* rejects with an error; whoever awaits it is resumed.
Settle(o) ==
  /\ o \in 1..Len(ops)
  /\ ops[o].st = "running"
  /\ LET videoId == ops[o].videoId IN
     \E res \in {Result(o, GatewayFileSize(videoId, mediaBytes[videoId])), Failure(o)} :
       /\ ops' = [ops EXCEPT ![o].st = res.kind, ![o].res = res]
       /\ files' = IF res.kind = "ok"
                     THEN [files EXCEPT ![videoId] = res.fileSize]
                     ELSE files
       /\ IF ops[o].src = "dm" THEN SettleManaged(o, res)
                               ELSE SettleSweep(o, res)

\* ------------------------------------------------------- initial states
\* A record as a previous session can have left it: waiting, interrupted,
\* failed, stored without a videoId, completed with the size of its file, or
\* interrupted while a completed record was downloaded again (the update that
\* marks it downloading keeps its filePath and fileSize).
StoredItem(id, status) ==
  [NoItem EXCEPT !.present = TRUE, !.videoId = VideoIdOf(id), !.downloadStatus = status]

CompletedItem(id, size) ==
  [StoredItem(id, "completed") EXCEPT !.filePath = PathOf(VideoIdOf(id)),
                                      !.fileName = PathOf(VideoIdOf(id)),
                                      !.fileSize = size]

InitialItems(id) ==
  IF id \notin SessionIds THEN {NoItem} ELSE
  { NoItem,
    StoredItem(id, "pending"),
    StoredItem(id, "downloading"),
    StoredItem(id, "failed"),
    [StoredItem(id, "pending") EXCEPT !.videoId = NoVideoId],
    CompletedItem(id, DownloadBytes),
    CompletedItem(id, ShortDownloadBytes),
    [CompletedItem(id, DownloadBytes) EXCEPT !.downloadStatus = "downloading"] }

\* What can be on disk for a record: nothing when no download finished, and
\* for a completed one the file as recorded, no file any more, or a file that
\* lost bytes since.
InitialFiles(item) ==
  IF item.filePath = NoPath THEN {0}
  ELSE IF item.fileSize = ShortDownloadBytes THEN {ShortDownloadBytes}
  ELSE {item.fileSize, 0, RottenBytes}

InitManager ==
  /\ activeDownloads = [m \in MediaIds |-> 0]
  /\ downloadStates = [m \in MediaIds |-> NoState]
  /\ cleanupTimers = [m \in MediaIds |-> 0]
  /\ calls = <<>>
  /\ cancelCount = [m \in MediaIds |-> 0]
  /\ settledLast = [m \in MediaIds |-> FALSE]
  /\ ops = <<>>

InitService ==
  /\ downloadQueue = <<>>
  /\ isProcessing = FALSE
  /\ currentDownload = 0
  /\ completedDownloads = 0
  /\ failedDownloads = 0
  /\ totalDownloads = 0
  /\ scans = <<>>
  /\ loops = <<>>
  /\ nScans = 0
  /\ nStops = 0
  /\ sweepNo = 0
  /\ lastProgress = Progress(0, 0, 0, <<>>, 0, FALSE)
  /\ completions = <<>>
  /\ lastItemComplete = <<0, "none">>

\* The status component of the main window has mounted and set its callbacks.
InitBus ==
  /\ onProgressCallback = 1
  /\ onCompleteCallback = 1
  /\ onItemCompleteCallback = 1
  /\ subscribed = <<1>>
  /\ deliveredTo = [topic \in {"progress", "complete", "item"} |-> <<>>]

InitExt ==
  /\ InitBus
  /\ validated = NoCheck
  /\ reqs = <<>>
  /\ returned = NoReturn
  /\ nextId = 3
  /\ nStoreCalls = 0

\* Every videoId is a video of ordinary size.
InitVideos ==
  /\ mediaBytes = [m \in MediaIds |-> DownloadBytes]

Init ==
  /\ InitManager
  /\ InitService
  /\ InitExt
  /\ mediaBytes \in [MediaIds -> DownloadSizes]
  /\ mediaBytes[2] = DownloadBytes
  /\ lib \in [ItemIds -> UNION {InitialItems(id) : id \in ItemIds}]
  /\ \A id \in ItemIds : lib[id] \in InitialItems(id)
  /\ files \in [MediaIds -> {0, ShortDownloadBytes, RottenBytes, DownloadBytes}]
  /\ \A id \in SessionIds : files[VideoIdOf(id)] \in InitialFiles(lib[id])

\* The whole program: UI downloads through the manager, the sweep, the gateway.
Next ==
  \/ \E m \in MediaIds : Len(calls) < MaxUiDownloads /\ StartDownload(m)
  \/ ScanRead
  \/ \E s \in 1..MaxSweeps : ScanCommit(s)
  \/ \E k \in 1..MaxSweeps : LoopDownload(k)
  \/ \E k \in 1..MaxSweeps : LoopRecorded(k)
  \/ \E k \in 1..MaxSweeps : LoopFailed(k)
  \/ \E k \in 1..MaxSweeps : LoopNext(k)
  \/ Stop
  \/ \E o \in 1..MaxOps : Settle(o)

Spec == Init /\ [][Next]_vars

\* The sweep on its own: scans, drain loops and the gateway.
NextSweep ==
  \/ ScanRead
  \/ \E s \in 1..MaxSweeps : ScanCommit(s)
  \/ \E k \in 1..MaxSweeps : LoopDownload(k)
  \/ \E k \in 1..MaxSweeps : LoopRecorded(k)
  \/ \E k \in 1..MaxSweeps : LoopFailed(k)
  \/ \E k \in 1..MaxSweeps : LoopNext(k)
  \/ \E o \in 1..MaxOps : Settle(o)

SpecSweep == Init /\ [][NextSweep]_vars

\* The sweep while further status components mount.
Observers == {1, 2}

NextBus ==
  \/ NextSweep
  \/ \E observer \in Observers : RegisterCallbacks(observer)

SpecBus == Init /\ [][NextBus]_vars

\* The sweep, started once by the start signal, while the user marks records
\* of the library as favourite and plays them.
NextUser ==
  \/ nScans = 0 /\ ScanRead
  \/ \E s \in 1..MaxSweeps : ScanCommit(s)
  \/ \E k \in 1..MaxSweeps : LoopDownload(k)
  \/ \E k \in 1..MaxSweeps : LoopRecorded(k)
  \/ \E k \in 1..MaxSweeps : LoopFailed(k)
  \/ \E k \in 1..MaxSweeps : LoopNext(k)
  \/ \E o \in 1..MaxOps : Settle(o)
  \/ \E kind \in {"toggle", "play"} : \E id \in SessionIds :
       nStoreCalls < MaxUserActions /\ UserActionCall(kind, id)
  \/ \E r \in 1..MaxStoreCalls : UserActionReturn(r)

SpecUser == Init /\ [][NextUser]_vars

\* The DownloadManager with its callers, its timers and the gateway.
InitDM ==
  /\ InitManager
  /\ InitService
  /\ InitExt
  /\ InitVideos
  /\ lib = [id \in ItemIds |-> NoItem]
  /\ files = [m \in MediaIds |-> 0]

NextDM ==
  \/ \E m \in MediaIds : StartDownload(m)
  \/ \E m \in MediaIds : CancelDownload(m)
  \/ \E m \in MediaIds : CleanupTimer(m)
  \/ \E o \in 1..MaxOps : Settle(o)

SpecDM == InitDM /\ [][NextDM]_vars

\* The library handlers under the calls the renderer makes (its call sites
\* add search results, which have no filePath yet): a library left by a
\* previous session, with what is on disk for each videoId.
InitLib ==
  /\ InitManager
  /\ InitService
  /\ InitExt
  /\ InitVideos
  /\ lib \in [ItemIds -> {NoItem} \cup UNION {{StoredItem(id, "pending"),
                                              CompletedItem(id, DownloadBytes)} :
                                             id \in SessionIds}]
  /\ \A id \in ItemIds : lib[id] \in InitialItems(id)
  /\ files \in [MediaIds -> {0, RottenBytes, DownloadBytes}]
  /\ \A id \in SessionIds : lib[id].present => files[VideoIdOf(id)] \in InitialFiles(lib[id])

NextLib ==
  \/ \E m \in MediaIds : AddCall(m, NoPath)
  \/ \E r \in 1..MaxStoreCalls : AddReturn(r)
  \/ \E id \in ItemIds : \E updates \in {DownloadingFields, FailedFields} :
       UpdateCall(id, updates)
  \/ \E id \in ItemIds :
       /\ lib[id].present /\ lib[id].videoId # NoVideoId
       /\ files[lib[id].videoId] # 0
       /\ UpdateCall(id, CompletedFields(lib[id].videoId))
  \/ \E r \in 1..MaxStoreCalls : UpdateReturn(r)
  \/ \E id \in ItemIds : RemoveCall(id)
  \/ \E r \in 1..MaxStoreCalls : RemoveReturn(r)

SpecLib == InitLib /\ [][NextLib]_vars

\* validateVideoFile on its own: files of every size of interest, asked about
\* with every expected size of interest.
FileSizes ==
  {0, 512000, 1000000, 1034000, 1048575, 1048576, 1880000, 9000000, 9400000,
   9499999, 9500000, 10000000, 10500000, 10500001}
ExpectedSizes ==
  {0 - 1, 0, 512000, 1000000, 1100000, 2000000, 9400000, 10000000}

InitVal ==
  /\ InitManager
  /\ InitService
  /\ InitExt
  /\ InitVideos
  /\ lib = [id \in ItemIds |-> NoItem]
  /\ files \in [MediaIds -> FileSizes]
  /\ files[2] = 0

NextVal == \E m \in MediaIds : \E e \in ExpectedSizes : ValidateFile(m, e)

SpecVal == InitVal /\ [][NextVal]_vars

\* ================================================================ claims
\* Steps, as the properties below recognise them.
StartStep(videoId) ==
  /\ Len(calls') = Len(calls) + 1
  /\ calls'[Len(calls')].videoId = videoId

CancelStep(videoId) == cancelCount'[videoId] = cancelCount[videoId] + 1

SettleStep(o) ==
  /\ o \in 1..Len(ops)
  /\ ops[o].st = "running"
  /\ ops'[o].st # "running"

Running(src, videoId) ==
  {o \in 1..Len(ops) : ops[o].src = src /\ ops[o].videoId = videoId /\ ops[o].st = "running"}

\* C1: a startDownload(videoId, op2) made while the operation op1 of an earlier
\* startDownload(videoId, op1) is unsettled, with no cancelDownload(videoId)
\* between the two calls, does not invoke op2 and joins op1's promise; callers
\* holding the same promise observe the same settlement.
C1_SingleFlight ==
  [][ /\ \A i \in 1..Len(calls) :
           ( /\ StartStep(calls[i].videoId)
             /\ calls[i].invoked
             /\ ops[calls[i].promise].st = "running"
             /\ calls[i].cancelsAt = cancelCount[calls[i].videoId] )
           => ( /\ ~calls'[Len(calls')].invoked
                /\ calls'[Len(calls')].promise = calls[i].promise )
      /\ \A i, j \in 1..Len(calls) :
           calls[i].promise = calls[j].promise => calls[i].got = calls[j].got
    ]_vars

\* C2: at most one operation started through startDownload is outstanding
\* for any videoId.
C2_OneOutstanding ==
  \A m \in MediaIds : Cardinality(Running("dm", m)) <= 1

\* C4: when an operation started by startDownload settles, isDownloading of its
\* videoId becomes false and stays false until the next startDownload of that
\* videoId, which invokes its own function as a fresh, unsettled operation.
C4_MarkerRemovedOnSettle ==
  [][ /\ \A o \in 1..Len(ops) :
           (SettleStep(o) /\ ops[o].src = "dm")
             => activeDownloads'[ops[o].videoId] = 0
      /\ \A m \in MediaIds :
           /\ settledLast[m] => ~isDownloading(m)
           /\ (StartStep(m) /\ settledLast[m])
                => ( /\ calls'[Len(calls')].invoked
                     /\ calls'[Len(calls')].promise = Len(ops) + 1
                     /\ Len(ops') = Len(ops) + 1
                     /\ ops'[Len(ops')].st = "running"
                     /\ calls'[Len(calls')].got = Pending )
    ]_vars

\* An operation settled and a later startDownload of the same videoId, with no
\* cancelDownload involved, runs a second operation.
C4_Witness ==
  \E o1, o2 \in 1..Len(ops) :
    /\ o1 < o2
    /\ ops[o1].videoId = ops[o2].videoId
    /\ ops[o1].src = "dm" /\ ops[o2].src = "dm"
    /\ cancelCount[ops[o1].videoId] = 0
    /\ ops[o1].st # "running"
    /\ ops[o2].st = "running"
    /\ isDownloading(ops[o2].videoId)

\* C5: when the operation of a startDownload fails, every caller holding its
\* promise receives exactly the error it failed with, and the recorded state
\* of the videoId becomes 'error' holding that error.
C5_ErrorPassedThrough ==
  [][ \A o \in 1..Len(ops) :
        (SettleStep(o) /\ ops[o].src = "dm" /\ ops'[o].st = "err")
          => ( /\ ops'[o].res = Failure(o)
               /\ \A i \in 1..Len(calls) :
                    calls[i].promise = o => calls'[i].got = ops'[o].res
               /\ getDownloadState(ops[o].videoId)'.status = "error"
               /\ getDownloadState(ops[o].videoId)'.payload = ops'[o].res )
    ]_vars

\* Two callers joined to one operation both hold the error it failed with.
C5_Witness ==
  \E i, j \in 1..Len(calls) :
    /\ i # j
    /\ calls[i].promise = calls[j].promise
    /\ calls[i].got = Failure(calls[i].promise)
    /\ calls[j].got = Failure(calls[i].promise)
    /\ downloadStates[calls[i].videoId].status = "error"

\* C6: cancelDownload on an in-flight videoId removes the marker and leaves the
\* operation running and its callers joined; a later startDownload never joins
\* a cancelled operation; the callers of a cancelled operation still receive
\* its settlement; cancelDownload on a videoId not in flight changes nothing.
C6_CancelIsMarkerOnly ==
  [][ /\ \A m \in MediaIds :
           CancelStep(m) =>
             IF isDownloading(m)
               THEN /\ ~isDownloading(m)'
                    /\ ops'[activeDownloads[m]].st = "running"
                    /\ calls' = calls
               ELSE UNCHANGED <<activeDownloads, downloadStates, cleanupTimers,
                                calls, ops, files>>
      /\ \A m \in MediaIds :
           StartStep(m) => ~ops'[calls'[Len(calls')].promise].cancelled
      /\ \A o \in 1..Len(ops) :
           (SettleStep(o) /\ ops[o].cancelled)
             => \A i \in 1..Len(calls) :
                  calls[i].promise = o => calls'[i].got = ops'[o].res
    ]_vars

\* A cancelled operation settled and its caller received the settlement, while
\* a startDownload made after the cancel ran an operation of its own.
C6_Witness ==
  \E i, j \in 1..Len(calls) :
    /\ i < j
    /\ calls[i].videoId = calls[j].videoId
    /\ ops[calls[i].promise].cancelled
    /\ calls[i].got # Pending
    /\ calls[j].invoked
    /\ calls[j].promise # calls[i].promise

\* C3: a download the sweep runs for a videoId never runs beside a download a
\* UI call site started through startDownload for the same videoId.
C3_SweepJoinsManager ==
  \A m \in MediaIds : Running("dm", m) = {} \/ Running("sweep", m) = {}

\* A startBackgroundDownloads call resumes (its suspended scan leaves scans).
CommitStep(s) ==
  /\ s \in 1..Len(scans)
  /\ Len(scans') = Len(scans) - 1
  /\ scans' = RemoveAt(scans, s)

\* C7: a startBackgroundDownloads requested while a sweep is draining, and
\* resuming while it still drains, changes neither the queue, the counters
\* nor the current item, and starts no drain loop.
C7_StartWhileDrainingIsNoOp ==
  [][ \A s \in 1..Len(scans) :
        (CommitStep(s) /\ scans[s].draining /\ isProcessing)
          => UNCHANGED <<downloadQueue, completedDownloads, failedDownloads,
                         totalDownloads, currentDownload, loops>>
    ]_vars

\* C8: while the download of one item of a sweep runs, no other item of that
\* sweep is being downloaded, recorded or waited for.
C8_SequentialDrain ==
  \A k, j \in 1..Len(loops) :
    (k # j /\ loops[k].sweep = loops[j].sweep /\ loops[k].pc = "dl")
      => loops[j].pc \notin {"dl", "upd2", "updF", "delay"}

\* The loop that awaits download o.
LoopOf(o) == CHOOSE k \in 1..Len(loops) : loops[k].pc = "dl" /\ loops[k].op = o

CompletionStep == Len(completions') = Len(completions) + 1

LastCompletion == completions[Len(completions)]

\* C9: a failed download is counted once in failedDownloads and its item is
\* persisted as failed, the queue behind it is left to be processed, and when
\* no stop() was called the completion event of a sweep with a failure counts
\* every item once: completed + failed = total.
C9_FailureIsolation ==
  [][ /\ \A o \in 1..Len(ops) :
           (SettleStep(o) /\ ops[o].src = "sweep" /\ ops'[o].st = "err")
             => ( /\ failedDownloads' = failedDownloads + 1
                  /\ downloadQueue' = downloadQueue
                  /\ loops'[LoopOf(o)].pc = "updF" )
      /\ \A k \in 1..Len(loops) :
           (loops[k].pc = "updF" /\ Len(loops') = Len(loops) /\ loops'[k].pc = "delay"
              /\ lib[loops[k].item].present)
             => lib'[loops[k].item].downloadStatus = "failed"
      /\ (CompletionStep /\ nStops = 0 /\ LastCompletion'.failed >= 1)
           => LastCompletion'.completed + LastCompletion'.failed
                = LastCompletion'.total
    ]_vars

Present == {id \in ItemIds : lib[id].present}

InQueue(id, queue) == \E n \in 1..Len(queue) : queue[n] = id

\* C10: the scan queues every record left downloading or pending without a
\* filePath; a successful download is recorded as completed with the gateway's
\* path and size, counted once and announced; and in a one-item library, when
\* no stop() was called, a completion event of a drain without failures reads
\* completed 1, failed 0, total 1.
C10_CrashRecovery ==
  [][ /\ \A s \in 1..Len(scans) : \A id \in ItemIds :
           ( /\ CommitStep(s)
             /\ scans[s].snap[id].present
             /\ scans[s].snap[id].downloadStatus \in {"downloading", "pending"}
             /\ scans[s].snap[id].filePath = NoPath )
           => (InQueue(id, downloadQueue') \/ currentDownload' = id)
      /\ \A k \in 1..Len(loops) :
           (loops[k].pc = "upd2" /\ Len(loops') = Len(loops) /\ loops'[k].pc = "delay")
             => LET id == loops[k].item IN
                  /\ lib'[id].downloadStatus = "completed"
                  /\ lib'[id].filePath = PathOf(VideoIdOf(id))
                  /\ lib'[id].fileSize = loops[k].res.fileSize
                  /\ completedDownloads' = completedDownloads + 1
                  /\ lastItemComplete' = <<id, "completed">>
      /\ (CompletionStep /\ Cardinality(Present) = 1 /\ nStops = 0
            /\ LastCompletion'.total >= 1 /\ LastCompletion'.failed = 0)
           => LastCompletion' = CompleteEvent(1, 0, 1)
    ]_vars

\* The size on disk of the file the last validateVideoFile call was about.
CheckedSize == files[VideoIdAt(validated.filePath)]

\* C19: validateVideoFile answers false for a missing file, false for a file
\* under 1 MiB whatever the expected size, false when the expected size is
\* positive and the file is off by more than 5% of it, and true otherwise
\* (an expected size that is absent, zero or negative is not compared).
C19_ValidatorContract ==
  validated.called =>
    LET size == CheckedSize
        expected == validated.expectedSize
    IN  /\ size = 0 => ~validated.ok
        /\ (size # 0 /\ size < 1024 * 1024) => ~validated.ok
        /\ (size # 0 /\ expected > 0 /\ 100 * Abs(size - expected) > 5 * expected)
             => ~validated.ok
        /\ ( /\ size >= 1024 * 1024
             /\ ~(expected > 0 /\ 100 * Abs(size - expected) > 5 * expected) )
             => validated.ok

\* A file one byte further than 5% from a positive expected size was rejected.
C19_Witness ==
  /\ validated.called
  /\ ~validated.ok
  /\ validated.expectedSize = 10000000
  /\ CheckedSize = 9499999

\* C20 (as stated): a file of exactly the expected size passes, a file at 94%
\* of the expected size passes, a file at 90% fails, and a file of 500 KiB
\* fails whatever the expected size; the first three are about files that
\* reach the size floor, which the last clause puts first.
C20_SizeTolerance ==
  (validated.called /\ validated.expectedSize > 0) =>
    LET size == CheckedSize
        expected == validated.expectedSize
    IN  /\ (size = expected /\ size >= MinValidBytes) => validated.ok
        /\ (100 * size = 94 * expected /\ size >= MinValidBytes) => validated.ok
        /\ (100 * size = 90 * expected /\ size >= MinValidBytes) => ~validated.ok
        /\ size = 512000 => ~validated.ok

\* C20 (amended): a file of exactly the expected size passes, a file at 95%
\* of the expected size passes, a file at 94% or at 90% fails, and a file of
\* 500 KiB fails whatever the expected size.
C20_SizeToleranceFivePercent ==
  (validated.called /\ validated.expectedSize > 0) =>
    LET size == CheckedSize
        expected == validated.expectedSize
    IN  /\ (size = expected /\ size >= MinValidBytes) => validated.ok
        /\ (100 * size = 95 * expected /\ size >= MinValidBytes) => validated.ok
        /\ (100 * size = 94 * expected /\ size >= MinValidBytes) => ~validated.ok
        /\ (100 * size = 90 * expected /\ size >= MinValidBytes) => ~validated.ok
        /\ size = 512000 => ~validated.ok

\* A file at 95% of the expected size was accepted.
C20_Witness ==
  /\ validated.called
  /\ validated.expectedSize = 10000000
  /\ CheckedSize = 9500000
  /\ validated.ok

\* The drain queue the scan that resumes in this step builds (empty when it
\* finds nothing to download), its first item included when processQueue has
\* taken it at once.
QueuedBy(s) ==
  IF sweepNo' = sweepNo THEN <<>>
  ELSE IF Len(loops') > Len(loops) THEN <<currentDownload'>> \o downloadQueue'
  ELSE downloadQueue'

\* The classification as the claim states it, for a record of the snapshot.
ClaimedNeedsDownload(item) ==
  \/ item.downloadStatus \in {"failed", "downloading", "pending"}
  \/ item.filePath = NoPath
  \/ ~validateVideoFile(item.filePath, item.fileSize)

\* C11: the scan queues a record with a videoId if and only if its status is
\* failed, downloading or pending, or it has no filePath, or validateVideoFile
\* rejects its file; a record without a videoId is never queued.
C11_ScanClassification ==
  [][ \A s \in 1..Len(scans) :
        CommitStep(s) =>
          \A id \in ItemIds :
            LET item == scans[s].snap[id] IN
              /\ (item.present /\ item.videoId # NoVideoId)
                   => (InQueue(id, QueuedBy(s)) <=> ClaimedNeedsDownload(item))
              /\ (item.present /\ item.videoId = NoVideoId)
                   => ~InQueue(id, QueuedBy(s))
    ]_vars

\* Every record of the snapshot is completed and its file passes validateVideoFile.
AllCompletedAndValid(snap) ==
  /\ \E id \in ItemIds : snap[id].present
  /\ \A id \in ItemIds :
       snap[id].present =>
         /\ snap[id].downloadStatus = "completed"
         /\ snap[id].filePath # NoPath
         /\ validateVideoFile(snap[id].filePath, snap[id].fileSize)

\* C12: a scan of a library whose records are all completed with a file that
\* passes validateVideoFile queues nothing, starts no download and no drain
\* loop, writes nothing to the store and hands exactly one event, completed 0,
\* failed 0, total 0, to the completion callback.
C12_IdempotentClassification ==
  [][ \A s \in 1..Len(scans) :
        (CommitStep(s) /\ AllCompletedAndValid(scans[s].snap))
          => ( /\ QueuedBy(s) = <<>>
               /\ completions' = Append(completions, CompleteEvent(0, 0, 0))
               /\ UNCHANGED <<lib, ops, files, loops, downloadQueue, isProcessing,
                              currentDownload, completedDownloads, failedDownloads,
                              totalDownloads, lastProgress, lastItemComplete>> )
    ]_vars

\* The sweep ran on a library of completed records with valid files and
\* reported zero work, and no download was started.
C12_Witness ==
  /\ AllCompletedAndValid(lib)
  /\ Cardinality(Present) = 2
  /\ Len(ops) = 0
  /\ nScans >= 1
  /\ scans = <<>>
  /\ completions = <<CompleteEvent(0, 0, 0)>>

\* A drain loop leaves its while loop in this step.
LoopExitStep == Len(loops') < Len(loops)

\* C13 (its outcome): when stop() was never called, a drain loop that runs out
\* of items leaves the queue empty and the service idle and hands the
\* completion callback one event whose completed + failed equals its total.
C13_DrainEndsConsistent ==
  [][ (LoopExitStep /\ nStops = 0)
        => ( /\ downloadQueue' = <<>>
             /\ ~isProcessing'
             /\ completions' = Append(completions, LastCompletion')
             /\ LastCompletion'.completed + LastCompletion'.failed
                  = LastCompletion'.total )
    ]_vars

StopStep == nStops' = nStops + 1

\* A loop whose current item is marked, downloaded or recorded right now.
InFlight(k) == loops[k].pc \in {"upd1", "dl", "upd2", "updF"}

\* C14: stop() empties the queue, so that the loop starts none of the items
\* that were queued; the item in flight settles and its update is written;
\* the service does not read idle while that item is in flight; the store is
\* not touched by stop().
C14_StopLetsInFlightSettle ==
  [][ /\ StopStep
        => ( /\ downloadQueue' = <<>>
             /\ lib' = lib
             /\ loops' = loops
             /\ (\E k \in 1..Len(loops) : InFlight(k)) => isProcessing' )
      /\ \A k \in 1..Len(loops) :
           ( /\ nStops > 0 /\ Len(loops') = Len(loops)
             /\ loops[k].pc = "upd2" /\ loops'[k].pc = "delay" )
           => lib'[loops[k].item].downloadStatus = "completed"
    ]_vars

\* The status a record holds in the store ("none" while it is not stored).
StatusOf(id) == lib[id].downloadStatus

\* C15 (the part every reading of it shares): a record enters the store as
\* pending or completed, and a stored record becomes completed or failed only
\* from downloading.  (The sweep marking a completed record downloading again,
\* because its file is gone, is not held against the claim here.)
C15_StatusLifecycle ==
  [][ \A id \in ItemIds :
        /\ (~lib[id].present /\ lib'[id].present)
             => StatusOf(id)' \in {"pending", "completed"}
        /\ ( /\ lib[id].present /\ lib'[id].present
             /\ StatusOf(id)' \in {"completed", "failed"}
             /\ StatusOf(id)' # StatusOf(id) )
             => StatusOf(id) = "downloading"
    ]_vars

\* The file of record id passes validateVideoFile against the recorded size.
RecordedFileValid(id) == validateVideoFile(lib[id].filePath, lib[id].fileSize)

\* C16: a step that writes a record as completed leaves its filePath set, and
\* the file at that path passes validateVideoFile against the recorded size
\* when the step is done.
C16_CompletedMeansValidated ==
  [][ \A id \in ItemIds :
        (lib'[id] # lib[id] /\ lib'[id].present /\ StatusOf(id)' = "completed")
          => ( /\ lib'[id].filePath # NoPath
               /\ RecordedFileValid(id)' )
    ]_vars

\* The library handler invocation r of the given kind returns in this step.
ReturnStep(r, kind) ==
  /\ r \in 1..Len(reqs)
  /\ reqs[r].kind = kind
  /\ nStoreCalls' = nStoreCalls
  /\ reqs' = RemoveAt(reqs, r)

\* No two stored records carry the same videoId.
UniqueVideoIds ==
  \A i, j \in ItemIds :
    (i # j /\ lib[i].present /\ lib[j].present /\ lib[i].videoId # NoVideoId)
      => lib[i].videoId # lib[j].videoId

\* C17: library-add-item for a videoId that a record of the library it read
\* already carries returns success false and writes nothing; and whatever adds,
\* updates and removes are made, no two stored records share a videoId.
C17_DuplicateAddRejected ==
  [][ /\ \A r \in 1..Len(reqs) :
           ( /\ ReturnStep(r, "add")
             /\ \E id \in ItemIds : /\ reqs[r].snap[id].present
                                    /\ reqs[r].snap[id].videoId = reqs[r].item.videoId )
           => ( /\ returned'.kind = "add"
                /\ ~returned'.success
                /\ lib' = lib )
      /\ UniqueVideoIds
      /\ UniqueVideoIds'
    ]_vars

\* An add was refused although every stored record has a filePath and the
\* library was not written: the refusal is for the videoId.
C17_Witness ==
  /\ returned.kind = "add"
  /\ ~returned.success
  /\ reqs = <<>>
  /\ nStoreCalls = 1
  /\ nextId = 3
  /\ \E id \in ItemIds : lib[id].present
  /\ \A id \in ItemIds : lib[id].present => lib[id].filePath # NoPath

\* C18: library-update-item for an id that is not in the library returns
\* success false with a message, throws nothing and writes nothing; for an id
\* that is there, the persisted library changes in the named fields of that
\* record and nowhere else.
C18_UpdateContract ==
  [][ \A r \in 1..Len(reqs) :
        ReturnStep(r, "update") =>
          LET id == reqs[r].id
              updates == reqs[r].updates
          IN  IF ~reqs[r].snap[id].present
                THEN /\ returned'.kind = "update"
                     /\ ~returned'.success
                     /\ returned'.message # ""
                     /\ ~returned'.threw
                     /\ lib' = lib
                ELSE /\ returned'.success
                     /\ \A j \in ItemIds \ {id} : lib'[j] = lib[j]
                     /\ \A f \in DOMAIN updates : lib'[id][f] = updates[f]
                     /\ \A f \in (DOMAIN lib[id]) \ (DOMAIN updates) :
                          lib'[id][f] = lib[id][f]
    ]_vars

\* The downloads the sweep started that have not settled.
SweepRunning == {o \in 1..Len(ops) : ops[o].src = "sweep" /\ ops[o].st = "running"}

\* C24: whatever startBackgroundDownloads and stop() calls and settlements
\* occur, at most one drain loop is inside processQueue and at most one
\* download started by the sweep is unsettled.
C24_OneDrainLoop ==
  /\ Len(loops) <= 1
  /\ Cardinality(SweepRunning) <= 1

\* The timer armed by an earlier settlement of videoId fires in this step.
CleanupStep(videoId) == cleanupTimers'[videoId] = cleanupTimers[videoId] - 1

\* The operations started through startDownload for videoId.
Managed(videoId) == {o \in 1..Len(ops) : ops[o].src = "dm" /\ ops[o].videoId = videoId}

\* C26: when a cancelled operation settles while a newer operation of the same
\* videoId holds the in-flight marker, the marker stays; and a startDownload
\* made while the newest operation of a videoId is unsettled and not cancelled
\* joins that operation and does not invoke its own function.
C26_SettleRemovesOwnMarker ==
  [][ /\ \A o \in 1..Len(ops) :
           ( /\ SettleStep(o) /\ ops[o].src = "dm" /\ ops[o].cancelled
             /\ isDownloading(ops[o].videoId) )
           => activeDownloads'[ops[o].videoId] = activeDownloads[ops[o].videoId]
      /\ \A m \in MediaIds : \A b \in Managed(m) :
           ( /\ StartStep(m)
             /\ \A o \in Managed(m) : o <= b
             /\ ops[b].st = "running" /\ ~ops[b].cancelled )
           => ( /\ ~calls'[Len(calls')].invoked
                /\ calls'[Len(calls')].promise = b )
    ]_vars

\* C27: while a videoId is in flight its recorded state reads 'downloading'
\* and is the state its in-flight operation wrote, and a cleanup timer that
\* fires while the videoId is in flight leaves the recorded state alone.
C27_StateWhileInFlight ==
  [][ /\ \A m \in MediaIds :
           (CleanupStep(m) /\ isDownloading(m))
             => getDownloadState(m)' = getDownloadState(m)
      /\ \A m \in MediaIds :
           isDownloading(m)' =>
             /\ getDownloadState(m)'.status = "downloading"
             /\ getDownloadState(m)'.startTime = activeDownloads'[m]
    ]_vars

\* The downloads started for the items of the queue that sweep n built.
SweepOps(n) == {o \in 1..Len(ops) : ops[o].src = "sweep" /\ ops[o].sweep = n}

\* The scan queues records in library order (MissingFrom), so that within one
\* queue the record with the smaller id stands before the one with the larger.
QueuedBefore(a, b) == a < b

\* C23: the downloads of the items of one queue start in the order the scan
\* queued the items, and no item of a queue is downloaded twice.
C23_QueueOrder ==
  \A n \in 1..sweepNo : \A o1, o2 \in SweepOps(n) :
    o1 < o2 => QueuedBefore(ops[o1].videoId, ops[o2].videoId)

\* completed + failed + remaining + (1 if an item is current) = total, and
\* completed + failed <= total, for a progress payload.
ProgressAddsUp(p) ==
  /\ p.completed + p.failed + p.remaining + (IF p.current # 0 THEN 1 ELSE 0) = p.total
  /\ p.completed + p.failed <= p.total

\* C25: while stop() was not called, every progress payload handed out adds
\* up, and so does every completion event (where nothing remains and no item
\* is current).  (A scan that enters processQueue reports progress twice in
\* one step; the first payload has no current item and the whole queue
\* remaining, and the second is the one kept in lastProgress.)
C25_ProgressArithmetic ==
  [][ nStops' = 0 =>
        /\ lastProgress' # lastProgress => ProgressAddsUp(lastProgress')
        /\ CompletionStep =>
             /\ LastCompletion'.completed + LastCompletion'.failed = LastCompletion'.total
    ]_vars

\* Two records name the same file: both have a filePath and the paths are equal.
SameFilePath(a, b) == a # NoPath /\ a = b

\* A record of the document carries the item's videoId or names the item's file.
ClaimedDuplicate(snap, item) ==
  \E id \in ItemIds :
    /\ snap[id].present
    /\ \/ snap[id].videoId = item.videoId
       \/ SameFilePath(snap[id].filePath, item.filePath)

\* C28: library-add-item succeeds and stores the item when no record of the
\* document it read carries the item's videoId or names the item's file; an
\* item without a filePath is stored although another record has none either.
C28_AddOfNewItemSucceeds ==
  [][ \A r \in 1..Len(reqs) :
        (ReturnStep(r, "add") /\ ~ClaimedDuplicate(reqs[r].snap, reqs[r].item))
          => ( /\ returned'.kind = "add"
               /\ returned'.success
               /\ lib'[returned'.id].present
               /\ lib'[returned'.id].videoId = reqs[r].item.videoId )
    ]_vars

\* C30: a record that is not in the persisted library enters it only through
\* an add, which gives it a fresh id, so that a removed record never comes
\* back; and an update that returns while its record is not in the persisted
\* library returns success false and leaves the library as it is.
C30_RemovedStaysRemoved ==
  [][ /\ \A id \in ItemIds :
           (~lib[id].present /\ lib'[id].present)
             => (id = nextId /\ nextId' = nextId + 1)
      /\ \A r \in 1..Len(reqs) :
           (ReturnStep(r, "update") /\ ~lib[reqs[r].id].present)
             => (~returned'.success /\ lib' = lib)
    ]_vars

\* The file a record names is on disk and validateVideoFile rejects it.
PresentButInvalid(item) ==
  /\ item.present /\ item.videoId # NoVideoId
  /\ item.filePath # NoPath
  /\ GetVideoBlobSuccess(item.filePath)
  /\ ~validateVideoFile(item.filePath, item.fileSize)

\* The scan that resumes in this step queues every record whose file is
\* present but invalid.
ScanQueuesInvalid ==
  \A s \in 1..Len(scans) : \A id \in ItemIds :
    (CommitStep(s) /\ PresentButInvalid(scans[s].snap[id]))
      => InQueue(id, QueuedBy(s))

\* A download of the sweep that succeeds in this step for a record whose file
\* is present but invalid leaves the newly written file on disk and reports
\* the size of that file.
GatewayReplacesInvalid ==
  \A o \in 1..Len(ops) : \A id \in ItemIds :
    ( /\ SettleStep(o) /\ ops[o].src = "sweep" /\ ops'[o].st = "ok"
      /\ VideoIdOf(id) = ops[o].videoId
      /\ PresentButInvalid(lib[id]) )
    => ( /\ files'[ops[o].videoId] = mediaBytes[ops[o].videoId]
         /\ ops'[o].res.fileSize = mediaBytes[ops[o].videoId] )

\* C22: the scan queues a record whose file is on disk but fails
\* validateVideoFile, and when the download the sweep runs for such a record
\* succeeds, the file on disk is the newly written one, not the file that
\* was there.
C22_InvalidFileReplaced ==
  [][ScanQueuesInvalid /\ GatewayReplacesInvalid]_vars

\* The topics on which the step notifies.
ProgressStep == lastProgress' # lastProgress
ItemSettledStep == lastItemComplete' # lastItemComplete

\* C21: every progress, item-settled and sweep-complete notification is
\* handed to every observer that has registered, in registration order.
C21_AllObserversNotified ==
  [][ /\ ProgressStep => deliveredTo'["progress"] = subscribed
      /\ ItemSettledStep => deliveredTo'["item"] = subscribed
      /\ CompletionStep => deliveredTo'["complete"] = subscribed
    ]_vars

\* A favourite toggle or a play-count update returns in this step.
UserReturnStep(r) == ReturnStep(r, "toggle") \/ ReturnStep(r, "play")

\* The record with the change a user action of the given kind makes to it.
UserChanged(record, kind) ==
  IF kind = "toggle" THEN [record EXCEPT !.isFavorite = ~record.isFavorite]
  ELSE [record EXCEPT !.playCount = record.playCount + 1]

====
